---- MODULE Spec2Model ----
(***************************************************************************)
(* Model of the accessibility CMS frontend: the create dialog with its     *)
(* three forms (HotelForm, TourForm, CareServiceForm), the Dashboard       *)
(* (list load, search/tab filter, detail view) and the ContentPreview      *)
(* (tabbed variant fetch, regeneration).                                    *)
(***************************************************************************)
EXTENDS Integers, Sequences, FiniteSets, TLC

(***************************************************************************)
(* Bounds of the model.                                                     *)
(***************************************************************************)
\* edits (a text input changed, a list row added or removed) the user makes to the forms
MaxEdits == 4
\* create requests in flight at once
MaxCreateReqs == 1
\* largest record id the backend hands out, per content type
MaxId == 2
\* regenerate requests in flight at once, where regenerations overlap
MaxRegenRace == 2
\* create requests in flight where submits can overlap
MaxCreateRace == 2
\* variant requests of one preview in flight at once
MaxVariantReqs == 1
\* regenerate requests in flight at once
MaxRegenReqs == 1

Null == "null"

\* no form mounted / no data: the record without fields
NoForm == <<>>

Mounted(fm) == DOMAIN fm # {}

ContentTypes == {"hotel", "tour", "care-service"}

(***************************************************************************)
(* The forms: field tables (zod schemas and useForm defaultValues).         *)
(***************************************************************************)
TextFields(t) ==
  CASE t = "hotel" -> {"name", "location", "coordinates", "description",
                       "cancellation_conditions", "parking", "accessibility_notes"}
    [] t = "tour" -> {"name", "description", "duration"}
    [] OTHER -> {"name", "description"}

\* z.array(z.string()) fields, edited through DynamicFieldArray
ListFields(t) ==
  CASE t = "hotel" -> {"images"}
    [] t = "tour" -> {"destinations", "photos", "support_services"}
    [] OTHER -> {"care_types", "staff_qualifications", "images"}

\* key/value fields that onFormSubmit sends as a mapping (Object.fromEntries)
KVMapFields(t) ==
  CASE t = "hotel" -> {"prices", "accessibility_features", "meal_times", "amenities"}
    [] t = "tour" -> {"accessibility_features"}
    [] OTHER -> {"pricing_insurance", "emergency_contact", "accessibility_features"}

\* key/value fields that onFormSubmit sends as a list of objects
KVListFields(t) ==
  CASE t = "hotel" -> {"nearby_accessible_places"}
    [] t = "tour" -> {"activities", "itinerary"}
    [] OTHER -> {}

KVFields(t) == KVMapFields(t) \cup KVListFields(t)

AllFields(t) == TextFields(t) \cup ListFields(t) \cup KVFields(t)

\* fields declared z.string().min(1, ...)
RequiredFields(t) ==
  CASE t = "hotel" -> {"name", "location"}
    [] t = "tour" -> {"name", "description"}
    [] OTHER -> {"name", "description"}

\* what the user can type
TextValues == {"", "x"}
ItemValues == {"", "i"}
KeyValues == {"", "a"}
ValValues == {"", "v"}
Rows == {[key |-> "", value |-> ""], [key |-> "", value |-> "v"], [key |-> "a", value |-> "v"]}

\* useForm defaultValues
DefaultValues(t) ==
  [f \in AllFields(t) |-> IF f \in TextFields(t) THEN "" ELSE <<>>]

(***************************************************************************)
(* zod validation (zodResolver): one error per field whose string is        *)
(* shorter than min(1).                                                     *)
(***************************************************************************)
MinLen == 1

StrLen(s) == IF s = "" THEN 0 ELSE 1

\* a resolver that validates the name only
SchemaErrors_NameOnly(t, data) ==
  {f \in RequiredFields(t) \cap {"name"} : StrLen(data[f]) < MinLen}

SchemaErrors(t, data) ==
  {f \in RequiredFields(t) : StrLen(data[f]) < MinLen}

(***************************************************************************)
(* onFormSubmit: the data shape transformation.                             *)
(***************************************************************************)
EmptyMap == [k \in {} |-> ""]

\* an entry that keeps the first value of a repeated key
PutEntry_KeepFirst(m, k, v) ==
  [x \in (DOMAIN m) \cup {k} |-> IF x \in DOMAIN m THEN m[x] ELSE v]

\* an entry that replaces the mapping built so far
PutEntry_OnlyLast(m, k, v) == [x \in {k} |-> v]

\* the property definition Object.fromEntries performs for one entry
PutEntry(m, k, v) ==
  [x \in (DOMAIN m) \cup {k} |-> IF x = k THEN v ELSE m[x]]

\* Object.fromEntries(rows.map(item => [item.key, item.value]))
RECURSIVE ObjectFromEntries(_)
ObjectFromEntries(rows) ==
  IF Len(rows) = 0 THEN EmptyMap
  ELSE PutEntry(ObjectFromEntries(SubSeq(rows, 1, Len(rows) - 1)),
                rows[Len(rows)].key, rows[Len(rows)].value)

\* rows.map(item => ...) for the list-shaped key/value fields
MapRow(f, item) ==
  CASE f = "nearby_accessible_places" -> (item.key :> item.value)
    [] f = "activities" -> [name |-> item.key, description |-> item.value]
    [] OTHER -> [time |-> item.key, activity |-> item.value]

\* a map over the rows that returns them in reverse order
MapRows_Reversed(f, rows) == [i \in 1..Len(rows) |-> MapRow(f, rows[Len(rows) + 1 - i])]

MapRows(f, rows) == [i \in 1..Len(rows) |-> MapRow(f, rows[i])]

\* an onFormSubmit that builds the payload without spreading ...data
TransformedData_NoSpread(t, data) ==
  [f \in KVFields(t) \cup RequiredFields(t) |->
     IF f \in KVMapFields(t) THEN ObjectFromEntries(data[f])
     ELSE IF f \in KVListFields(t) THEN MapRows(f, data[f])
     ELSE data[f]]

\* const transformedData = { ...data, <key/value fields reshaped> }
TransformedData(t, data) ==
  [f \in DOMAIN data |->
     IF f \in KVMapFields(t) THEN ObjectFromEntries(data[f])
     ELSE IF f \in KVListFields(t) THEN MapRows(f, data[f])
     ELSE data[f]]

(***************************************************************************)
(* CreateContentDialog.handleSubmit: endpoint choice and request.           *)
(***************************************************************************)
Endpoint(contentType) ==
  CASE contentType = "hotel" -> "/api/hotels"
    [] contentType = "tour" -> "/api/tours"
    [] contentType = "care-service" -> "/api/care-services"
    [] OTHER -> ""

\* <HotelForm onSubmit={(data) => handleSubmit(data, 'hotel')} /> and its siblings:
\* the contentType each form's onSubmit passes on
WiredContentType_AlwaysHotel(formName) == "hotel"

WiredContentType(formName) ==
  CASE formName = "hotel" -> "hotel"
    [] formName = "tour" -> "tour"
    [] OTHER -> "care-service"

\* JSON.stringify(data): the serialized text of the payload
JSONStringify(data) == <<"json", data>>

\* live: the dialog whose handleSubmit awaits the request is still mounted
CreateRequest(data, contentType) ==
  [method |-> "POST", endpoint |-> Endpoint(contentType), body |-> JSONStringify(data),
   live |-> TRUE]


(***************************************************************************)
(* Text: strings the search looks into are sequences of characters.        *)
(***************************************************************************)
UpperChars == <<"A", "B", "C", "G", "I", "L", "M", "N", "P", "S">>
LowerChars == <<"a", "b", "c", "g", "i", "l", "m", "n", "p", "s">>

\* String.prototype.toLowerCase, one character
ToLowerChar(c) ==
  IF \E i \in 1..Len(UpperChars) : UpperChars[i] = c
  THEN LowerChars[CHOOSE i \in 1..Len(UpperChars) : UpperChars[i] = c]
  ELSE c

toLowerCase(s) == [i \in 1..Len(s) |-> ToLowerChar(s[i])]

\* String.prototype.includes
includes(s, q) ==
  \E i \in 0..(Len(s) - Len(q)) : SubSeq(s, i + 1, i + Len(q)) = q

(***************************************************************************)
(* Dashboard: mockContent (texts shortened to their first word).            *)
(***************************************************************************)
mockContent ==
  << [id |-> 1, type |-> "hotel",
      title |-> <<"G", "r", "a", "n", "d">>,
      description |-> <<"L", "u", "x", "u", "r", "y">>,
      location |-> <<"M", "i", "a", "m", "i">>,
      accessibilityTypes |-> <<"wheelchair_user", "dyslexia", "low_vision">>],
     [id |-> 2, type |-> "tour",
      title |-> <<"I", "n", "c", "l", "u", "s", "i", "v", "e">>,
      description |-> <<"G", "u", "i", "d", "e", "d">>,
      location |-> <<"N", "e", "w">>,
      accessibilityTypes |-> <<"cognitive_impairment", "anxiety_travel_fear">>],
     [id |-> 3, type |-> "care-service",
      title |-> <<"S", "p", "e", "c", "i", "a", "l", "i", "z", "e", "d">>,
      description |-> <<"P", "r", "o", "f", "e", "s", "s", "i", "o", "n", "a", "l">>,
      location |-> <<"L", "o", "s">>,
      accessibilityTypes |-> <<"wheelchair_user", "cognitive_impairment", "dyslexia">>] >>

(***************************************************************************)
(* The backend's records, as the list endpoints return them.                *)
(***************************************************************************)
BackendName(t, id) ==
  CASE t = "hotel" -> IF id % 2 = 1 THEN <<"A", "b">> ELSE <<"b", "c">>
    [] t = "tour" -> IF id % 2 = 1 THEN <<"B", "a">> ELSE <<"c">>
    [] OTHER -> IF id % 2 = 1 THEN <<"C", "a", "b">> ELSE <<"a">>

BackendText(t, id) ==
  CASE t = "hotel" -> IF id % 2 = 1 THEN <<"M", "i">> ELSE <<"b">>
    [] t = "tour" -> IF id % 2 = 1 THEN <<"g">> ELSE <<"A", "c">>
    [] OTHER -> IF id % 2 = 1 THEN <<"c", "c">> ELSE <<"L">>

BackendRecord(t, id) ==
  IF t = "hotel"
  THEN [id |-> id, name |-> BackendName(t, id), location |-> BackendText(t, id)]
  ELSE [id |-> id, name |-> BackendName(t, id), description |-> BackendText(t, id)]

\* a list endpoint returns its records in id order
RECURSIVE BackendList(_, _)
BackendList(t, ids) ==
  IF ids = {} THEN <<>>
  ELSE LET m == CHOOSE x \in ids : \A y \in ids : x <= y
       IN <<BackendRecord(t, m)>> \o BackendList(t, ids \ {m})

\* fetch rejected | response.json() rejected | { success: false } | { success: true, <list> }
ListOutcomes ==
  [kind : {"reject", "unparseable", "failure"}, ids : {{}}]
    \cup [kind : {"success"}, ids : SUBSET (1..MaxId)]

(***************************************************************************)
(* Dashboard.fetchContentData: transformation of the three responses.       *)
(***************************************************************************)
HotelItem(hotel) ==
  [id |-> hotel.id, type |-> "hotel", title |-> hotel.name,
   description |-> hotel.location, location |-> hotel.location,
   accessibilityTypes |-> <<>>]

TourItem(tour) ==
  [id |-> tour.id, type |-> "tour", title |-> tour.name,
   description |-> tour.description, location |-> <<>>,
   accessibilityTypes |-> <<>>]

CareServiceItem(service) ==
  [id |-> service.id, type |-> "care-service", title |-> service.name,
   description |-> service.description, location |-> <<>>,
   accessibilityTypes |-> <<>>]

ItemOf(t, rec) ==
  CASE t = "hotel" -> HotelItem(rec)
    [] t = "tour" -> TourItem(rec)
    [] OTHER -> CareServiceItem(rec)

\* ...(data.success ? data.<list>.map(...) : [])
ItemsOf(t, outcome) ==
  IF outcome.kind = "success"
  THEN LET list == BackendList(t, outcome.ids)
       IN [i \in 1..Len(list) |-> ItemOf(t, list[i])]
  ELSE <<>>

\* a fetchContentData that catches only rejected requests
NoThrow_RejectOnly(outcome) == outcome.kind # "reject"

\* neither the fetch nor response.json() of this request throws
NoThrow(outcome) == outcome.kind \notin {"reject", "unparseable"}

\* a fetchContentData that falls back to the mock data when a response has
\* success = false
LoadedContent_MockOnFailure(oh, ot, oc) ==
  IF \A o \in {oh, ot, oc} : o.kind = "success"
  THEN ItemsOf("hotel", oh) \o ItemsOf("tour", ot) \o ItemsOf("care-service", oc)
  ELSE mockContent

\* the value fetchContentData passes to setContentData
LoadedContent(oh, ot, oc) ==
  IF NoThrow(oh) /\ NoThrow(ot) /\ NoThrow(oc)
  THEN ItemsOf("hotel", oh) \o ItemsOf("tour", ot) \o ItemsOf("care-service", oc)
  ELSE mockContent

(***************************************************************************)
(* Dashboard: filter, tab counts, cards.                                    *)
(***************************************************************************)
DashboardTabs == {"all"} \cup ContentTypes

Queries == {<<>>, <<"A">>, <<"b">>}

\* a search that compares the characters as they are
matchesSearch_CaseSensitive(item, query) ==
  \/ includes(item.title, query)
  \/ includes(item.description, query)
  \/ includes(item.location, query)

matchesSearch(item, query) ==
  \/ includes(toLowerCase(item.title), toLowerCase(query))
  \/ includes(toLowerCase(item.description), toLowerCase(query))
  \/ includes(toLowerCase(item.location), toLowerCase(query))

matchesTab(item, tab) == tab = "all" \/ item.type = tab

\* contentData.filter(item => matchesSearch && matchesTab)
RECURSIVE FilterFrom(_, _, _, _)
FilterFrom(data, query, tab, i) ==
  IF i > Len(data) THEN <<>>
  ELSE (IF matchesSearch(data[i], query) /\ matchesTab(data[i], tab)
        THEN <<data[i]>> ELSE <<>>) \o FilterFrom(data, query, tab, i + 1)

FilteredContent(data, query, tab) == FilterFrom(data, query, tab, 1)

\* the labels of the tab triggers and of the results badge
CountOfType(data, t) == Cardinality({i \in 1..Len(data) : data[i].type = t})

(***************************************************************************)
(* Dashboard.handleViewContent: the detail request and its fallback.        *)
(***************************************************************************)
NoContent == <<>>

Selected(c) == DOMAIN c # {}

\* contentData.find(item => item.id === id): index of the first match, 0 if none
FindById(data, id) ==
  IF \E i \in 1..Len(data) : data[i].id = id
  THEN CHOOSE i \in 1..Len(data) :
         data[i].id = id /\ \A j \in 1..(i - 1) : data[j].id # id
  ELSE 0

DetailEndpoint(t) ==
  CASE t = "hotel" -> "/api/hotels/"
    [] t = "tour" -> "/api/tours/"
    [] OTHER -> "/api/care-services/"

\* the request handleViewContent(id) issues for the item it found
ViewRequest(contentItem, id) ==
  [endpoint |-> DetailEndpoint(contentItem.type), id |-> id, itemType |-> contentItem.type]

\* fetch rejected | !response.ok | { success: false } | { success: true, <record> }
ViewOutcomes == {"reject", "notok", "failure", "success"}

\* the id of a content object without an id field
NoId == 0

\* a content object: the record it shows (id, type), where it came from, the
\* disability type it was fetched for, and the tab whose regeneration was merged in
Content(id, type, src, variant, regen) ==
  [id |-> id, type |-> type, src |-> src, variant |-> variant, regen |-> regen]

\* how handleViewContent shows the outcome of its request to the user
ViewShown(req, outcome) ==
  IF outcome = "success" THEN Null
  ELSE IF FindById(mockContent, req.id) # 0 THEN "mock" ELSE "none"

\* what handleViewContent leaves in selectedContent when its request settles
ViewResult(req, outcome, prev) ==
  IF outcome = "success"
  THEN Content(req.id, req.itemType, "backend", "original", "none")
  ELSE LET m == FindById(mockContent, req.id)
       IN IF m # 0
          THEN Content(mockContent[m].id, mockContent[m].type, "mock", "original", "none")
          ELSE prev

VARIABLES
  \* Dashboard
  contentLoading,     \* Dashboard.contentLoading
  contentData,        \* Dashboard.contentData
  listPending,        \* the three list requests of fetchContentData are in flight
  searchQuery,        \* Dashboard.searchQuery
  activeTab,          \* Dashboard.activeTab
  isLoading,          \* Dashboard.isLoading
  selectedContent,    \* Dashboard.selectedContent (NoContent: null)
  viewReqs,           \* detail requests in flight
  createDialogOpen,   \* Dashboard.createDialogOpen
  createDialogTab,    \* Dashboard.createDialogTab
  \* CreateContentDialog and the mounted form
  dlgActiveTab,       \* CreateContentDialog.activeTab
  dlgIsLoading,       \* CreateContentDialog.isLoading
  form,               \* field values of the mounted form (NoForm: none mounted)
  edits,              \* edits made to the forms so far
  createReqs,         \* create requests in flight
  \* ContentPreview
  pvActiveTab,        \* ContentPreview.activeTab
  currentContent,     \* ContentPreview.currentContent
  isLoadingContent,   \* ContentPreview.isLoadingContent
  isRegenerating,     \* ContentPreview.isRegenerating
  variantReqs,        \* variant requests of the mounted preview in flight
  regenReqs,          \* regenerate requests in flight
  \* what the last step did (kept until the next user action)
  clicked,            \* the card whose View was clicked
  attempt,            \* the submit attempt: data, validation errors, onSubmit calls, payload
  effects,            \* effects of the handleSubmit call that settled
  settled,            \* the request that settled: its outcome, and how a failure was shown
  step                \* "trigger": a triggering event; "settle": a request settled;
                      \* "settle+trigger": a settle that reloads, mounts or changes
                      \* the content; "other"

dashVars == <<contentLoading, contentData, listPending, searchQuery, activeTab,
              isLoading, selectedContent, viewReqs>>
dialogVars == <<createDialogOpen, createDialogTab, dlgActiveTab, dlgIsLoading,
                form, createReqs>>
budgetVars == <<edits>>
previewVars == <<pvActiveTab, currentContent, isLoadingContent, isRegenerating,
                 variantReqs, regenReqs>>
obsVars == <<clicked, attempt, effects, settled>>

vars == <<dashVars, dialogVars, previewVars, budgetVars, obsVars, step>>

NoAttempt == [type |-> Null, data |-> NoForm, errors |-> {}, calls |-> 0, payload |-> NoForm]
NoClick == [type |-> Null, id |-> 0]
NoSettled == [op |-> Null, outcome |-> Null, shown |-> Null, responses |-> <<>>]

NoObs ==
  /\ clicked' = NoClick
  /\ attempt' = NoAttempt
  /\ effects' = <<>>
  /\ settled' = NoSettled

\* the state of a freshly loaded page: Dashboard mounts and starts fetchContentData
PageLoad ==
  /\ contentLoading' = TRUE
  /\ contentData' = <<>>
  /\ listPending' = TRUE
  /\ searchQuery' = <<>>
  /\ activeTab' = "all"
  /\ isLoading' = FALSE
  /\ selectedContent' = NoContent
  /\ viewReqs' = <<>>
  /\ createDialogOpen' = FALSE
  /\ createDialogTab' = "hotel"
  /\ dlgActiveTab' = "hotel"
  /\ dlgIsLoading' = FALSE
  /\ form' = NoForm
  /\ createReqs' = <<>>
  /\ pvActiveTab' = "original"
  /\ currentContent' = NoContent
  /\ isLoadingContent' = FALSE
  /\ isRegenerating' = Null
  /\ variantReqs' = <<>>
  /\ regenReqs' = <<>>

Init ==
  /\ contentLoading = TRUE
  /\ contentData = <<>>
  /\ listPending = TRUE
  /\ searchQuery = <<>>
  /\ activeTab = "all"
  /\ isLoading = FALSE
  /\ selectedContent = NoContent
  /\ viewReqs = <<>>
  /\ createDialogOpen = FALSE
  /\ createDialogTab = "hotel"
  /\ dlgActiveTab = "hotel"
  /\ dlgIsLoading = FALSE
  /\ form = NoForm
  /\ edits = 0
  /\ createReqs = <<>>
  /\ pvActiveTab = "original"
  /\ currentContent = NoContent
  /\ isLoadingContent = FALSE
  /\ isRegenerating = Null
  /\ variantReqs = <<>>
  /\ regenReqs = <<>>
  /\ clicked = NoClick
  /\ attempt = NoAttempt
  /\ effects = <<>>
  /\ settled = NoSettled
  /\ step = "trigger"

\* the dashboard branch of Dashboard's render is shown and can be operated
DashboardShown == ~Selected(selectedContent)
DashboardUsable == DashboardShown /\ ~createDialogOpen

(***************************************************************************)
(* Dashboard.handleCreateContent, called by the Header dropdown items and   *)
(* the hero / empty-state buttons, all of them without an argument.         *)
(***************************************************************************)
Undefined == "undefined"

NextCreateDialogTab(contentType, tab) ==
  IF contentType # Undefined /\ contentType \in ContentTypes
  THEN contentType ELSE tab

handleCreateContent(contentType) ==
  /\ DashboardUsable
  /\ createDialogTab' = NextCreateDialogTab(contentType, createDialogTab)
  /\ createDialogOpen' = TRUE
  \* the dialog content mounts the form of the dialog's active tab
  /\ form' = DefaultValues(dlgActiveTab)
  /\ NoObs /\ step' = "other"
  /\ UNCHANGED <<dashVars, previewVars, budgetVars, dlgActiveTab, dlgIsLoading, createReqs>>

\* onClick={() => onCreateContent?.()} of the dropdown item 'Create Hotel', 'Create
\* Tour' or 'Create Care Service': the item passes no content type
HeaderItemClick(item) == handleCreateContent(Undefined)

\* one of the three dropdown items is chosen
HeaderCreate == \E item \in ContentTypes : HeaderItemClick(item)

\* the user dismisses the dialog: onOpenChange(false)
CloseDialog ==
  /\ DashboardShown /\ createDialogOpen
  /\ createDialogOpen' = FALSE
  /\ form' = NoForm
  /\ NoObs /\ step' = "other"
  /\ UNCHANGED <<dashVars, previewVars, budgetVars, createDialogTab, dlgActiveTab,
                 dlgIsLoading, createReqs>>

\* Tabs onValueChange: the other form mounts with its default values
DlgSetActiveTab(t) ==
  /\ DashboardShown /\ createDialogOpen
  /\ t # dlgActiveTab
  /\ dlgActiveTab' = t
  /\ form' = DefaultValues(t)
  /\ NoObs /\ step' = "other"
  /\ UNCHANGED <<dashVars, previewVars, budgetVars, createDialogOpen, createDialogTab,
                 dlgIsLoading, createReqs>>

(***************************************************************************)
(* Editing the mounted form.                                                *)
(***************************************************************************)
CanEdit == DashboardShown /\ createDialogOpen /\ Mounted(form) /\ edits < MaxEdits

Edited(f, v) ==
  /\ form' = [form EXCEPT ![f] = v]
  /\ edits' = edits + 1
  /\ NoObs /\ step' = "other"
  /\ UNCHANGED <<dashVars, previewVars, createDialogOpen, createDialogTab, dlgActiveTab,
                 dlgIsLoading, createReqs>>

RemoveAt(s, i) == SubSeq(s, 1, i - 1) \o SubSeq(s, i + 1, Len(s))

\* register(field): typing into a text input
SetText(f, s) ==
  /\ CanEdit
  /\ f \in TextFields(dlgActiveTab)
  /\ s # form[f]
  /\ Edited(f, s)

\* DynamicFieldArray: append("") and typing the item
AppendItem(f, s) ==
  /\ CanEdit
  /\ f \in ListFields(dlgActiveTab)
  /\ Edited(f, Append(form[f], s))

\* DynamicKeyValue: append({ key: "", value: "" }) and typing key and value
AppendRow(f, row) ==
  /\ CanEdit
  /\ f \in KVFields(dlgActiveTab)
  /\ Edited(f, Append(form[f], row))

\* DynamicFieldArray / DynamicKeyValue: remove(index)
RemoveRow(f, i) ==
  /\ CanEdit
  /\ f \in ListFields(dlgActiveTab) \cup KVFields(dlgActiveTab)
  /\ i \in 1..Len(form[f])
  /\ Edited(f, RemoveAt(form[f], i))

(***************************************************************************)
(* Submit: react-hook-form handleSubmit(onFormSubmit), then                 *)
(* CreateContentDialog.handleSubmit up to its await fetch(...).             *)
(***************************************************************************)
\* the resolver's verdict: onFormSubmit runs only without errors
OnSubmitCalls(errs) == IF errs = {} THEN 1 ELSE 0

\* the submit button of the mounted form, with fewer than cap create requests in flight
SubmitFormWithin(cap) ==
  /\ DashboardShown /\ createDialogOpen /\ Mounted(form)
  /\ ~dlgIsLoading                      \* the submit button is disabled={isLoading}
  /\ LET t == dlgActiveTab
         errs == SchemaErrors(t, form)
         payload == TransformedData(t, form)
     IN IF OnSubmitCalls(errs) = 0
        THEN /\ attempt' = [type |-> t, data |-> form, errors |-> errs,
                            calls |-> 0, payload |-> NoForm]
             /\ step' = "other"
             /\ UNCHANGED <<dlgIsLoading, createReqs>>
        ELSE /\ Len(createReqs) < cap
             /\ attempt' = [type |-> t, data |-> form, errors |-> errs,
                            calls |-> OnSubmitCalls(errs), payload |-> payload]
             /\ step' = "trigger"
             /\ dlgIsLoading' = TRUE
             /\ createReqs' = Append(createReqs, CreateRequest(payload, WiredContentType(t)))
  /\ clicked' = NoClick /\ effects' = <<>> /\ settled' = NoSettled
  /\ UNCHANGED <<dashVars, previewVars, budgetVars, createDialogOpen, createDialogTab,
                 dlgActiveTab, form>>

\* the submit, with at most MaxCreateReqs create requests in flight
SubmitForm == SubmitFormWithin(MaxCreateReqs)

(***************************************************************************)
(* The create request settles: the rest of handleSubmit.                    *)
(***************************************************************************)
\* fetch rejected | response.json() rejected | { success: false } | { success: true }
CreateOutcomes == {"reject", "unparseable", "failure", "success"}

\* a handleSubmit that also closes the dialog after a failure
SubmitEffects_CloseOnFailure(outcome) ==
  IF outcome = "success"
  THEN <<"toast:Content Created Successfully!", "onOpenChange(false)", "reload">>
  ELSE <<"toast:Creation Failed", "onOpenChange(false)">>

\* a handleSubmit that reloads before it closes the dialog
SubmitEffects_ReloadFirst(outcome) ==
  IF outcome = "success"
  THEN <<"toast:Content Created Successfully!", "reload", "onOpenChange(false)">>
  ELSE <<"toast:Creation Failed">>

SubmitEffects(outcome) ==
  IF outcome = "success"
  THEN <<"toast:Content Created Successfully!", "onOpenChange(false)", "reload">>
  ELSE <<"toast:Creation Failed">>

Has(effs, e) == \E k \in 1..Len(effs) : effs[k] = e

\* a handler that issues its request again when it failed
InFlightAfter_RetryOnFailure(reqs, i, outcome) ==
  IF outcome = "success" THEN RemoveAt(reqs, i) ELSE Append(RemoveAt(reqs, i), reqs[i])

\* the requests left in flight once request i has settled: a handler awaits its
\* fetch once and never issues it again, whatever the outcome
InFlightAfter(reqs, i, outcome) == RemoveAt(reqs, i)

\* how handleSubmit shows the outcome of its request to the user
CreateShown(outcome) == IF outcome = "success" THEN Null ELSE "toast"

\* finally { setIsLoading(false) } of the handleSubmit that awaited req
LoadingAfter(req, loading) == IF req.live THEN FALSE ELSE loading

CreateSettle(i, outcome) ==
  /\ i \in 1..Len(createReqs)
  /\ LET effs == SubmitEffects(outcome)
     IN /\ effects' = effs
        /\ IF Has(effs, "reload")
           THEN \* window.location.reload(): the page starts over
                /\ PageLoad
                /\ step' = "settle+trigger"
           ELSE /\ dlgIsLoading' = LoadingAfter(createReqs[i], dlgIsLoading)
                /\ createReqs' = InFlightAfter(createReqs, i, outcome)
                /\ createDialogOpen' =
                     IF Has(effs, "onOpenChange(false)") THEN FALSE ELSE createDialogOpen
                /\ form' = IF Has(effs, "onOpenChange(false)") THEN NoForm ELSE form
                /\ step' = "settle"
                /\ UNCHANGED <<dashVars, previewVars, createDialogTab, dlgActiveTab>>
  /\ settled' = [op |-> "create", outcome |-> outcome, shown |-> CreateShown(outcome),
                 responses |-> <<>>]
  /\ UNCHANGED <<budgetVars, clicked, attempt>>

NextForm ==
  \/ HeaderCreate
  \/ CloseDialog
  \/ \E t \in ContentTypes : DlgSetActiveTab(t)
  \/ \E f \in TextFields(dlgActiveTab), s \in TextValues : SetText(f, s)
  \/ \E f \in ListFields(dlgActiveTab), s \in ItemValues : AppendItem(f, s)
  \/ \E f \in KVFields(dlgActiveTab), row \in Rows : AppendRow(f, row)
  \/ \E f \in ListFields(dlgActiveTab) \cup KVFields(dlgActiveTab), i \in 1..MaxEdits :
       RemoveRow(f, i)
  \/ SubmitForm
  \/ \E i \in 1..MaxCreateReqs, outcome \in CreateOutcomes : CreateSettle(i, outcome)

\* the create dialog and its forms, on a page whose list is still loading
SpecForm == Init /\ [][NextForm]_vars

(***************************************************************************)
(* Dashboard: what the dashboard branch renders.                            *)
(***************************************************************************)
\* a tab content that keeps the cards while the detail request is pending
DisplayedCards_NoSkeleton == FilteredContent(contentData, searchQuery, activeTab)

\* the cards of the tab content: skeletons replace them while isLoading
DisplayedCards ==
  IF isLoading THEN <<>> ELSE FilteredContent(contentData, searchQuery, activeTab)

\* what TabsContent renders in the dashboard branch: skeleton cards while isLoading,
\* the cards of filteredContent when there are some, the 'No content found' card
\* otherwise; contentLoading is read nowhere
TabsContentShows ==
  IF isLoading THEN "skeletons"
  ELSE IF Len(FilteredContent(contentData, searchQuery, activeTab)) > 0 THEN "cards"
  ELSE "No content found"

\* {filteredContent.length} results
ResultsBadge == Len(FilteredContent(contentData, searchQuery, activeTab))

\* the count in the label of a tab trigger
TabCount(tab) ==
  IF tab = "all" THEN Len(contentData) ELSE CountOfType(contentData, tab)

(***************************************************************************)
(* Dashboard.fetchContentData: the three list requests settle.              *)
(***************************************************************************)
ListFailed(oh, ot, oc) == \E o \in {oh, ot, oc} : o.kind # "success"

\* how fetchContentData shows a failure to the user
ListShown(oh, ot, oc) ==
  IF ~ListFailed(oh, ot, oc) THEN Null
  ELSE IF NoThrow(oh) /\ NoThrow(ot) /\ NoThrow(oc) THEN "none" ELSE "mock"

ListSettle(oh, ot, oc) ==
  /\ listPending
  /\ contentData' = LoadedContent(oh, ot, oc)
  /\ contentLoading' = FALSE                                  \* finally
  /\ listPending' = FALSE
  /\ settled' = [op |-> "list",
                 outcome |-> IF ListFailed(oh, ot, oc) THEN "failure" ELSE "success",
                 shown |-> ListShown(oh, ot, oc),
                 responses |-> <<oh, ot, oc>>]
  /\ step' = "settle"
  /\ UNCHANGED <<searchQuery, activeTab, isLoading, selectedContent, viewReqs,
                 dialogVars, previewVars, budgetVars, clicked, attempt, effects>>

(***************************************************************************)
(* Dashboard: search box (Header onSearch) and content tabs.                *)
(***************************************************************************)
SetSearchQuery(q) ==
  /\ ~createDialogOpen
  /\ q # searchQuery
  /\ searchQuery' = q
  /\ NoObs /\ step' = "other"
  /\ UNCHANGED <<contentLoading, contentData, listPending, activeTab, isLoading,
                 selectedContent, viewReqs, dialogVars, previewVars, budgetVars>>

SetActiveTab(tab) ==
  /\ DashboardUsable
  /\ tab # activeTab
  /\ activeTab' = tab
  /\ NoObs /\ step' = "other"
  /\ UNCHANGED <<contentLoading, contentData, listPending, searchQuery, isLoading,
                 selectedContent, viewReqs, dialogVars, previewVars, budgetVars>>

(***************************************************************************)
(* ContentPreview: mount, unmount and the two effects.                      *)
(***************************************************************************)
\* a tab list with a key accessibilityConfig does not have
disabilityTypes_UnknownKey ==
  <<"original", "wheelchair_user", "hearing_impairment", "cognitive_impairment",
    "anxiety_travel_fear", "low_vision">>

disabilityTypes ==
  <<"original", "wheelchair_user", "dyslexia", "cognitive_impairment",
    "anxiety_travel_fear", "low_vision">>

\* the tabs the user clicks
TabChoices == {disabilityTypes[1], disabilityTypes[2], disabilityTypes[3]}

\* the request fetchDisabilityContent issues; it keeps the content prop for its fallback
VariantRequest(content, tab) ==
  [endpoint |-> DetailEndpoint(content.type), id |-> content.id,
   disability_type |-> tab, content |-> content]

\* fetchDisabilityContent returns early, without a request
NoVariantFetch(content, tab) == tab = "original" \/ content.id = NoId

\* ContentPreview mounts with content: both effects run, the tab is 'original'
PreviewMount(content) ==
  /\ pvActiveTab' = "original"
  /\ isRegenerating' = Null
  /\ currentContent' = content
  /\ isLoadingContent' = FALSE
  /\ variantReqs' = <<>>

\* the content prop of the mounted preview changes: both effects run
ContentChanged(content) ==
  /\ currentContent' = content
  /\ IF NoVariantFetch(content, pvActiveTab)
     THEN UNCHANGED <<isLoadingContent, variantReqs>>
     ELSE /\ Len(variantReqs) < MaxVariantReqs
          /\ isLoadingContent' = TRUE
          /\ variantReqs' = Append(variantReqs, VariantRequest(content, pvActiveTab))
  /\ UNCHANGED pvActiveTab

\* a request whose component has unmounted: what its handler sets is the state of
\* no component
Orphaned(reqs) == [k \in 1..Len(reqs) |-> [reqs[k] EXCEPT !.live = FALSE]]

\* Dashboard renders its preview branch: CreateContentDialog unmounts with the
\* dashboard branch and will mount again with useState(false), useState(defaultTab)
DialogUnmount ==
  /\ dlgIsLoading' = FALSE
  /\ dlgActiveTab' = createDialogTab
  /\ form' = NoForm
  /\ createReqs' = Orphaned(createReqs)
  /\ UNCHANGED <<createDialogOpen, createDialogTab>>

\* Dashboard renders its dashboard branch again: the dialog mounts, with the form of
\* its tab when it is open
DialogMount ==
  /\ form' = IF createDialogOpen THEN DefaultValues(dlgActiveTab) ELSE NoForm
  /\ UNCHANGED <<createDialogOpen, createDialogTab, dlgActiveTab, dlgIsLoading,
                 createReqs>>

\* setSelectedContent(content): the preview mounts in place of the dashboard branch,
\* or its content prop changes and its isRegenerating becomes regenerating
SetSelectedContent(content, regenerating) ==
  /\ selectedContent' = content
  /\ IF Selected(selectedContent)
     THEN /\ ContentChanged(content) /\ isRegenerating' = regenerating
          /\ UNCHANGED dialogVars
     ELSE PreviewMount(content) /\ DialogUnmount

(***************************************************************************)
(* Dashboard.handleViewContent and onBack.                                  *)
(***************************************************************************)
\* onView(id) of the i-th displayed card, up to the await fetch(...)
ViewClick(i) ==
  /\ DashboardUsable
  /\ i \in 1..Len(DisplayedCards)
  /\ LET card == DisplayedCards[i]
         k == FindById(contentData, card.id)
     IN /\ k # 0
        /\ viewReqs' = Append(viewReqs, ViewRequest(contentData[k], card.id))
        /\ clicked' = [type |-> card.type, id |-> card.id]
  /\ isLoading' = TRUE
  /\ attempt' = NoAttempt /\ effects' = <<>> /\ settled' = NoSettled
  /\ step' = "trigger"
  /\ UNCHANGED <<contentLoading, contentData, listPending, searchQuery, activeTab,
                 selectedContent, dialogVars, previewVars, budgetVars>>

\* handleViewContent calls setSelectedContent
ViewSets(req, outcome) == outcome = "success" \/ FindById(mockContent, req.id) # 0

\* the fields of a response record without optional fields
NoFields == <<>>

NonEmptyString == [kind |-> "string", size |-> 1]
NonEmptyArray == [kind |-> "array", size |-> 1]
NonEmptyObject == [kind |-> "object", size |-> 1]

\* the mock detail handleViewContent builds for a mockContent item of a type
MockDetail(type) ==
  CASE type = "hotel" ->
         [name |-> NonEmptyString, location |-> NonEmptyString, prices |-> NonEmptyObject,
          amenities |-> NonEmptyObject, accessibility_features |-> NonEmptyObject]
    [] type = "tour" ->
         [name |-> NonEmptyString, description |-> NonEmptyString,
          duration |-> NonEmptyString, destinations |-> NonEmptyArray,
          activities |-> NonEmptyArray]
    [] OTHER ->
         [name |-> NonEmptyString, description |-> NonEmptyString,
          care_types |-> NonEmptyArray, staff_qualifications |-> NonEmptyArray]

\* { ...data, id: ..., type: ... }: the fields of data under the keys of content
WithFields(content, data) ==
  [f \in (DOMAIN data) \cup (DOMAIN content) |->
     IF f \in DOMAIN content THEN content[f] ELSE data[f]]

\* what handleViewContent passes to setSelectedContent when the response record is data
DetailResult(req, outcome, prev, data) ==
  LET content == ViewResult(req, outcome, prev)
  IN IF outcome = "success" THEN WithFields(content, data)
     ELSE WithFields(content, MockDetail(content.type))

\* the detail request settles, a successful response carrying the record data:
\* the rest of handleViewContent
ViewSettleWith(i, outcome, data) ==
  /\ i \in 1..Len(viewReqs)
  /\ LET req == viewReqs[i]
     IN /\ IF ViewSets(req, outcome)
           THEN /\ SetSelectedContent(DetailResult(req, outcome, selectedContent, data),
                                   isRegenerating)
                /\ step' = "settle+trigger"
           ELSE /\ UNCHANGED <<selectedContent, pvActiveTab, currentContent,
                               isLoadingContent, isRegenerating, variantReqs,
                               dialogVars>>
                /\ step' = "settle"
        /\ settled' = [op |-> "view", outcome |-> outcome,
                       shown |-> ViewShown(req, outcome), responses |-> <<>>]
  /\ isLoading' = FALSE                                       \* finally
  /\ viewReqs' = InFlightAfter(viewReqs, i, outcome)
  /\ UNCHANGED <<contentLoading, contentData, listPending, searchQuery, activeTab,
                 regenReqs, budgetVars, clicked, attempt, effects>>

\* the detail request settles with a record that has no optional fields
ViewSettle(i, outcome) == ViewSettleWith(i, outcome, NoFields)

\* onBack: setSelectedContent(null), the preview unmounts
Back ==
  /\ Selected(selectedContent)
  /\ selectedContent' = NoContent
  /\ pvActiveTab' = "original"
  /\ currentContent' = NoContent
  /\ isLoadingContent' = FALSE
  /\ isRegenerating' = Null
  /\ variantReqs' = <<>>            \* their handlers set the state of no component
  /\ regenReqs' = Orphaned(regenReqs)
  /\ DialogMount
  /\ NoObs /\ step' = "other"
  /\ UNCHANGED <<contentLoading, contentData, listPending, searchQuery, activeTab,
                 isLoading, viewReqs, budgetVars>>

NextDash ==
  \/ \E oh, ot, oc \in ListOutcomes : ListSettle(oh, ot, oc)
  \/ \E q \in Queries : SetSearchQuery(q)
  \/ \E tab \in DashboardTabs : SetActiveTab(tab)
  \/ \E i \in 1..(3 * MaxId) : ViewClick(i)
  \/ \E outcome \in ViewOutcomes : ViewSettle(1, outcome)
  \/ Back

\* the dashboard: list load, search and tabs, detail view and back
SpecDash == Init /\ [][NextDash]_vars

(***************************************************************************)
(* ContentPreview: tab change and fetchDisabilityContent.                   *)
(***************************************************************************)
\* Tabs onValueChange={setActiveTab}: the fetch effect runs for the new tab
PvSetActiveTab(tab) ==
  /\ Selected(selectedContent)
  /\ tab # pvActiveTab
  /\ pvActiveTab' = tab
  /\ IF NoVariantFetch(selectedContent, tab)
     THEN /\ currentContent' = selectedContent
          /\ UNCHANGED <<isLoadingContent, variantReqs>>
     ELSE /\ Len(variantReqs) < MaxVariantReqs
          /\ isLoadingContent' = TRUE
          /\ variantReqs' = Append(variantReqs, VariantRequest(selectedContent, tab))
          /\ UNCHANGED currentContent
  /\ NoObs /\ step' = "trigger"
  /\ UNCHANGED <<dashVars, dialogVars, isRegenerating, regenReqs, budgetVars>>

\* fetch rejected | !response.ok | { success: false } | { success: true, <record> }
VariantOutcomes == {"reject", "notok", "failure", "success"}

\* a variant fetch that keeps what is displayed when its request fails
VariantResult_KeepDisplayed(req, outcome) ==
  IF outcome = "success"
  THEN Content(req.content.id, req.content.type, "backend", req.disability_type, "none")
  ELSE currentContent

\* what fetchDisabilityContent passes to setCurrentContent
VariantResult(req, outcome) ==
  IF outcome = "success"
  THEN Content(req.content.id, req.content.type, "backend", req.disability_type, "none")
  ELSE req.content

\* how fetchDisabilityContent shows the outcome of its request to the user
VariantShown(outcome) == IF outcome = "success" THEN Null ELSE "original"

VariantSettle(i, outcome) ==
  /\ i \in 1..Len(variantReqs)
  /\ currentContent' = VariantResult(variantReqs[i], outcome)
  /\ isLoadingContent' = FALSE                                \* finally
  /\ variantReqs' = InFlightAfter(variantReqs, i, outcome)
  /\ settled' = [op |-> "variant", outcome |-> outcome,
                 shown |-> VariantShown(outcome), responses |-> <<>>]
  /\ step' = "settle"
  /\ UNCHANGED <<dashVars, dialogVars, pvActiveTab, isRegenerating, regenReqs,
                 budgetVars, clicked, attempt, effects>>

(***************************************************************************)
(* ContentPreview.handleRegenerate and Dashboard's onRegenerateContent.     *)
(***************************************************************************)
RegenRequest(content, disabilityType) ==
  [method |-> "POST", endpoint |-> "/api/regenerate-content/",
   type |-> content.type, id |-> content.id,
   disability_type |-> disabilityType, live |-> TRUE]

\* onClick={() => handleRegenerate(activeTab)}, up to the await fetch(...)
RegenerateClickWithin(cap) ==
  /\ Selected(selectedContent)
  /\ pvActiveTab # "original"                     \* the button is rendered
  /\ isRegenerating # pvActiveTab                 \* and not disabled
  /\ Len(regenReqs) < cap
  /\ isRegenerating' = pvActiveTab
  /\ regenReqs' = Append(regenReqs, RegenRequest(selectedContent, pvActiveTab))
  /\ NoObs /\ step' = "trigger"
  /\ UNCHANGED <<dashVars, dialogVars, pvActiveTab, currentContent, isLoadingContent,
                 variantReqs, budgetVars>>

\* the click, with at most MaxRegenReqs regenerate requests in flight
RegenerateClick == RegenerateClickWithin(MaxRegenReqs)

RegenOutcomes == {"reject", "notok", "failure", "success"}

\* a regenerate handler that replaces the selected record by the returned fields
Regenerated_Replace(prev, req) ==
  Content(NoId, Undefined, "regenerated", "original", req.disability_type)

\* setSelectedContent(prev => ({ ...prev, ...data.content }))
Regenerated(prev, req) ==
  IF Selected(prev)
  THEN [prev EXCEPT !.regen = req.disability_type]
  ELSE Content(NoId, Undefined, "regenerated", "original", req.disability_type)

\* how onRegenerateContent shows the outcome of its request to the user
RegenShown(outcome) == IF outcome = "success" THEN Null ELSE "log"

\* a handleRegenerate without its finally block
RegeneratingAfter_NoFinally(req, regenerating) == regenerating

\* finally { setIsRegenerating(null) } of the handleRegenerate that awaited req
RegeneratingAfter(req, regenerating) == IF req.live THEN Null ELSE regenerating

\* the regenerate request settles: the rest of onRegenerateContent and handleRegenerate
RegenSettle(i, outcome) ==
  /\ i \in 1..Len(regenReqs)
  /\ LET req == regenReqs[i]
     IN IF outcome = "success"
        THEN /\ SetSelectedContent(Regenerated(selectedContent, req),
                                   RegeneratingAfter(req, isRegenerating))
             /\ step' = "settle+trigger"
        ELSE /\ isRegenerating' = RegeneratingAfter(req, isRegenerating)
             /\ step' = "settle"
             /\ UNCHANGED <<selectedContent, pvActiveTab, currentContent,
                            isLoadingContent, variantReqs, dialogVars>>
  /\ regenReqs' = InFlightAfter(regenReqs, i, outcome)
  /\ settled' = [op |-> "regenerate", outcome |-> outcome,
                 shown |-> RegenShown(outcome), responses |-> <<>>]
  /\ UNCHANGED <<contentLoading, contentData, listPending, searchQuery, activeTab,
                 isLoading, viewReqs, budgetVars, clicked, attempt, effects>>

NextPreview ==
  \/ \E oh, ot, oc \in ListOutcomes : ListSettle(oh, ot, oc)
  \/ \E i \in 1..(3 * MaxId) : ViewClick(i)
  \/ \E outcome \in ViewOutcomes : ViewSettle(1, outcome)
  \/ Back
  \/ \E tab \in TabChoices : PvSetActiveTab(tab)
  \/ \E i \in 1..MaxVariantReqs, outcome \in VariantOutcomes : VariantSettle(i, outcome)
  \/ RegenerateClick
  \/ \E i \in 1..MaxRegenReqs, outcome \in RegenOutcomes : RegenSettle(i, outcome)

\* the detail view: list load, view and back, preview tabs, regeneration
SpecPreview == Init /\ [][NextPreview]_vars

\* every list request returns one record
OneRecord == [kind |-> "success", ids |-> {1}]

NextRegen ==
  \/ ListSettle(OneRecord, OneRecord, OneRecord)
  \/ \E i \in 1..(3 * MaxId) : ViewClick(i)
  \/ \E outcome \in ViewOutcomes : ViewSettle(1, outcome)
  \/ Back
  \/ \E tab \in TabChoices : PvSetActiveTab(tab)
  \/ \E i \in 1..MaxVariantReqs, outcome \in VariantOutcomes : VariantSettle(i, outcome)
  \/ RegenerateClickWithin(MaxRegenRace)
  \/ \E i \in 1..MaxRegenRace, outcome \in RegenOutcomes : RegenSettle(i, outcome)

\* overlapping regenerations of the records of a list with one record per type
SpecRegen == Init /\ [][NextRegen]_vars

(***************************************************************************)
(* ContentPreview.renderContent: which parts of a record are rendered.      *)
(* A field value is a JSON value, kept as its kind and its size.            *)
(***************************************************************************)
JsonNull == [kind |-> "null", size |-> 0]

\* JavaScript truthiness of a present value
Truthy(v) ==
  CASE v.kind = "null" -> FALSE
    [] v.kind = "string" -> v.size > 0
    [] OTHER -> TRUE                      \* arrays and objects, empty or not

\* data.<field> is truthy (an absent field is undefined)
FieldTruthy(data, f) == f \in DOMAIN data /\ Truthy(data[f])

\* value.length > 0 and value.length === 0 (an object has no length)
LengthPositive(v) == v.kind \in {"string", "array"} /\ v.size > 0
LengthZero(v) == v.kind \in {"string", "array"} /\ v.size = 0

\* Object.keys(value).length
ObjectKeysLength(v) == v.size

\* the test guarding each optional part: "truthy" (data.f), "length"
\* (data.f && data.f.length > 0), "keys" (data.f && Object.keys(data.f).length > 0)
SectionTests(contentType) ==
  CASE contentType = "hotel" ->
         [description |-> "truthy", coordinates |-> "truthy", prices |-> "keys",
          images |-> "length", amenities |-> "keys", accessibility_features |-> "keys",
          accessibility_notes |-> "truthy", meal_times |-> "keys", parking |-> "truthy",
          cancellation_conditions |-> "truthy", nearby_accessible_places |-> "length"]
    [] contentType = "tour" ->
         [description |-> "truthy", duration |-> "truthy", photos |-> "length",
          destinations |-> "length", activities |-> "length", itinerary |-> "length",
          support_services |-> "length", accessibility_features |-> "keys"]
    [] contentType = "care-service" ->
         [description |-> "truthy", images |-> "length", care_types |-> "length",
          staff_qualifications |-> "length", pricing_insurance |-> "keys",
          emergency_contact |-> "keys", accessibility_features |-> "keys"]
    [] OTHER -> <<>>

\* an empty-state test that forgets the accessibility features
EmptyStateTests_NoFeatures(contentType) ==
  [f \in DOMAIN SectionTests(contentType) \ {"accessibility_features"} |->
     SectionTests(contentType)[f]]

\* the tests the 'Empty State for Missing Data' condition negates, per field
EmptyStateTests(contentType) ==
  CASE contentType = "hotel" ->
         [description |-> "truthy", coordinates |-> "truthy", prices |-> "keys",
          amenities |-> "keys", accessibility_features |-> "keys", images |-> "length",
          cancellation_conditions |-> "truthy", meal_times |-> "keys",
          parking |-> "truthy", nearby_accessible_places |-> "length",
          accessibility_notes |-> "truthy"]
    [] contentType = "tour" ->
         [description |-> "truthy", duration |-> "truthy", photos |-> "length",
          destinations |-> "length", activities |-> "length", itinerary |-> "length",
          support_services |-> "length", accessibility_features |-> "keys"]
    [] contentType = "care-service" ->
         [description |-> "truthy", images |-> "length", care_types |-> "length",
          staff_qualifications |-> "length", pricing_insurance |-> "keys",
          emergency_contact |-> "keys", accessibility_features |-> "keys"]
    [] OTHER -> <<>>

\* {data.f && ... && ( <section/> )}
SectionRendered(data, f, test) ==
  /\ FieldTruthy(data, f)
  /\ CASE test = "truthy" -> TRUE
       [] test = "length" -> LengthPositive(data[f])
       [] OTHER -> ObjectKeysLength(data[f]) > 0

\* one conjunct of the empty-state condition: !data.f, or
\* (!data.f || data.f.length === 0), or (!data.f || Object.keys(data.f).length === 0)
EmptyStateConjunct(data, f, test) ==
  \/ ~FieldTruthy(data, f)
  \/ CASE test = "truthy" -> FALSE
       [] test = "length" -> LengthZero(data[f])
       [] OTHER -> ObjectKeysLength(data[f]) = 0

EmptyStatePanel == "No Additional Information Available"

\* renderHotelContent / renderTourContent / renderCareServiceContent: the optional
\* parts and the empty-state panel that are rendered for data
RenderedParts(contentType, data) ==
  {f \in DOMAIN SectionTests(contentType) :
     SectionRendered(data, f, SectionTests(contentType)[f])}
  \cup (IF \A f \in DOMAIN EmptyStateTests(contentType) :
             EmptyStateConjunct(data, f, EmptyStateTests(contentType)[f])
        THEN {EmptyStatePanel} ELSE {})

\* renderContent(data): switch (contentType)
renderContent(contentType, data) ==
  IF contentType \in ContentTypes
  THEN RenderedParts(contentType, data)
  ELSE {"Unknown content type"}

(***************************************************************************)
(* The preview of a record with optional fields.                            *)
(***************************************************************************)
\* optional fields of a response record that are present and non-empty, at most
MaxNonEmpty == 2
\* optional fields of a response record that are present but empty or null, at most
MaxEmpty == 1

\* the JSON kind of the field a test is written for
KindOf(test) ==
  CASE test = "truthy" -> "string"
    [] test = "length" -> "array"
    [] OTHER -> "object"

\* the record whose fields P are non-empty, E \ N empty and N null; the others absent
DetailRecord(contentType, P, E, N) ==
  [f \in P \cup E |->
     IF f \in P THEN [kind |-> KindOf(SectionTests(contentType)[f]), size |-> 1]
     ELSE IF f \in N THEN JsonNull
     ELSE [kind |-> KindOf(SectionTests(contentType)[f]), size |-> 0]]

\* the detail records a backend returns for a content type
DetailRecords(contentType) ==
  LET fields == DOMAIN SectionTests(contentType)
  IN UNION { UNION { {DetailRecord(contentType, P, E, N) : N \in SUBSET E} :
                     E \in {X \in SUBSET (fields \ P) : Cardinality(X) <= MaxEmpty} } :
             P \in {X \in SUBSET fields : Cardinality(X) <= MaxNonEmpty} }

\* what the active TabsContent of the preview renders
PreviewRendered ==
  IF ~Selected(selectedContent) THEN {}
  ELSE IF isLoadingContent THEN {"Loading content"}
  ELSE IF Selected(currentContent)
       THEN renderContent(selectedContent.type, currentContent)
       ELSE {}

\* the detail request settles, a successful response carrying any detail record
ViewSettleDetail(outcome) ==
  /\ viewReqs # <<>>
  /\ \E data \in DetailRecords(viewReqs[1].itemType) : ViewSettleWith(1, outcome, data)

NextRender ==
  \/ ListSettle(OneRecord, OneRecord, OneRecord)
  \/ \E i \in 1..(3 * MaxId) : ViewClick(i)
  \/ \E outcome \in ViewOutcomes : ViewSettleDetail(outcome)
  \/ Back

\* the detail view of records with optional fields
SpecRender == Init /\ [][NextRender]_vars

(***************************************************************************)
(* The five loading flags: list load, detail view, create dialog, preview   *)
(* tabs and regeneration on one page, where every request settles.          *)
(***************************************************************************)
\* the list requests return one record each, or the first of them is rejected
LoadOutcomes == {OneRecord, [kind |-> "reject", ids |-> {}]}

\* the user fills in a required field of the mounted form
FillRequired == \E f \in RequiredFields(dlgActiveTab) : SetText(f, "x")

\* the request at the head of each queue settles
ListSettles == \E oh \in LoadOutcomes : ListSettle(oh, OneRecord, OneRecord)
ViewSettles == \E outcome \in ViewOutcomes : ViewSettle(1, outcome)
CreateSettles == \E outcome \in CreateOutcomes : CreateSettle(1, outcome)
VariantSettles == \E outcome \in VariantOutcomes : VariantSettle(1, outcome)
RegenSettles == \E outcome \in RegenOutcomes : RegenSettle(1, outcome)

\* the tabs the user clicks on this page
LoadingTabs == {disabilityTypes[1], disabilityTypes[2]}

NextLoading ==
  \/ ListSettles
  \/ ViewClick(1)                       \* View on the first card
  \/ ViewSettles
  \/ Back
  \/ HeaderCreate
  \/ CloseDialog
  \/ FillRequired
  \/ SubmitForm
  \/ CreateSettles
  \/ \E tab \in LoadingTabs : PvSetActiveTab(tab)
  \/ VariantSettles
  \/ RegenerateClick
  \/ RegenSettles

\* every request eventually settles: a request stays in its queue until it settles
\* or its page is gone, so it comes to the head of the queue and settles there
EveryRequestSettles ==
  /\ WF_vars(ListSettles)
  /\ WF_vars(ViewSettles)
  /\ WF_vars(CreateSettles)
  /\ WF_vars(VariantSettles)
  /\ WF_vars(RegenSettles)

SpecLoading == Init /\ [][NextLoading]_vars /\ EveryRequestSettles

(***************************************************************************)
(* The create dialog on a page where a card is viewed: the dialog unmounts  *)
(* with the dashboard branch and mounts again on Back.                      *)
(***************************************************************************)
NextCreate ==
  \/ ListSettle(OneRecord, OneRecord, OneRecord)
  \/ ViewClick(1)                       \* View on the first card
  \/ ViewSettles
  \/ Back
  \/ HeaderCreate
  \/ CloseDialog
  \/ FillRequired
  \/ SubmitFormWithin(MaxCreateRace)
  \/ \E i \in 1..MaxCreateRace, outcome \in CreateOutcomes : CreateSettle(i, outcome)

SpecCreate == Init /\ [][NextCreate]_vars

(***************************************************************************)
(* ContentPreview: the rows of the list-shaped fields. An item is an object *)
(* (the forms send no strings); a property is shown when it is truthy.      *)
(***************************************************************************)
\* the properties of an item the render function reads, per field
ShownProperties(f) ==
  CASE f = "nearby_accessible_places" -> {"name", "description", "distance"}
    [] f = "activities" -> {"name", "description"}
    [] OTHER -> {"title", "description", "time"}

\* the texts the render function shows for an item of field f
ItemTexts(f, item) ==
  {item[p] : p \in {q \in ShownProperties(f) \cap DOMAIN item : item[q] # ""}}

(***************************************************************************)
(* ContentPreview: every tab of the preview, and AccessibilityBadge.        *)
(***************************************************************************)
\* the keys of accessibilityConfig, which AccessibilityBadge looks its type up in
accessibilityConfig ==
  {"wheelchair_user", "dyslexia", "cognitive_impairment", "anxiety_travel_fear",
   "low_vision", "original"}

\* a TabsTrigger is clicked: one per entry of disabilityTypes
TabsTriggerClick == \E k \in 1..Len(disabilityTypes) : PvSetActiveTab(disabilityTypes[k])

NextTabs ==
  \/ ListSettle(OneRecord, OneRecord, OneRecord)
  \/ ViewClick(1)                       \* View on the first card
  \/ ViewSettles
  \/ Back
  \/ TabsTriggerClick
  \/ VariantSettles
  \/ RegenerateClick
  \/ RegenSettles

\* the preview of one record with all six tabs
SpecTabs == Init /\ [][NextTabs]_vars

(***************************************************************************)
(* Claims.                                                                  *)
(***************************************************************************)
FailedCreateOutcomes == {"reject", "unparseable", "failure"}

\* the required fields as the claim lists them
C1_Required(t) ==
  CASE t = "hotel" -> {"name", "location"}
    [] t = "tour" -> {"name", "description"}
    [] t = "care-service" -> {"name", "description"}

\* C1: a submit attempt with an empty required field never invokes onSubmit, sends
\* no create request and records an error for each empty required field; an attempt
\* with all required fields non-empty invokes onSubmit exactly once.
C1_EmptyRequiredFieldsRejected ==
  attempt.type # Null =>
    LET empty == {f \in C1_Required(attempt.type) : attempt.data[f] = ""}
    IN /\ empty # {} =>
            /\ attempt.calls = 0
            /\ createReqs = <<>>
            /\ empty \subseteq attempt.errors
       /\ empty = {} => attempt.calls = 1

\* a hotel submit with a name and without a location was rejected
C1_Witness ==
  /\ attempt.type = "hotel"
  /\ attempt.data["name"] = "x" /\ attempt.data["location"] = ""
  /\ attempt.calls = 0 /\ "location" \in attempt.errors

\* the key/value fields sent as a mapping, as the claim lists them
C2_MapFields(t) ==
  CASE t = "hotel" -> {"prices", "accessibility_features", "meal_times", "amenities"}
    [] t = "tour" -> {"accessibility_features"}
    [] t = "care-service" -> {"pricing_insurance", "emergency_contact",
                              "accessibility_features"}

C2_IsLastOfKey(rows, i) == \A j \in (i + 1)..Len(rows) : rows[j].key # rows[i].key

\* C2 as stated: the mapping passed to onSubmit holds key -> value for every entered
\* row and no key that was not entered.
C2_EveryRowInMapping ==
  attempt.calls = 1 =>
    \A f \in C2_MapFields(attempt.type) :
      LET rows == attempt.data[f]
          m == attempt.payload[f]
      IN /\ \A i \in 1..Len(rows) :
              rows[i].key \in DOMAIN m /\ m[rows[i].key] = rows[i].value
         /\ \A k \in DOMAIN m : \E i \in 1..Len(rows) : rows[i].key = k

\* C2 amended: the mapping holds key -> value for every entered row that is the last
\* row with its key, and no key that was not entered.
C2_LastRowOfEachKeyInMapping ==
  attempt.calls = 1 =>
    \A f \in C2_MapFields(attempt.type) :
      LET rows == attempt.data[f]
          m == attempt.payload[f]
      IN /\ \A i \in 1..Len(rows) :
              /\ rows[i].key \in DOMAIN m
              /\ C2_IsLastOfKey(rows, i) => m[rows[i].key] = rows[i].value
         /\ \A k \in DOMAIN m : \E i \in 1..Len(rows) : rows[i].key = k

\* a form was submitted with two rows of the same key and different values in a
\* field sent as a mapping
C2_Witness ==
  /\ attempt.calls = 1
  /\ \E f \in C2_MapFields(attempt.type) :
       /\ Len(attempt.data[f]) = 2
       /\ attempt.data[f][1].key = attempt.data[f][2].key
       /\ attempt.data[f][1].value # attempt.data[f][2].value

\* C6: when a create request fails (fetch rejects, body unparseable, success not
\* true), handleSubmit shows exactly one destructive 'Creation Failed' toast, neither
\* closes the dialog nor reloads, and ends with isLoading = false.
C6_FailedCreateReported ==
  [][ ( /\ Len(createReqs') < Len(createReqs)
        /\ settled'.op = "create"
        /\ settled'.outcome \in FailedCreateOutcomes )
      => ( /\ effects' = <<"toast:Creation Failed">>
           /\ createDialogOpen' = createDialogOpen
           /\ form' = form
           /\ contentLoading' = contentLoading /\ listPending' = listPending
           /\ dlgIsLoading' = FALSE ) ]_vars

\* a create request failed while its form was still open
C6_Witness ==
  /\ settled.op = "create" /\ settled.outcome \in FailedCreateOutcomes
  /\ createDialogOpen /\ Mounted(form) /\ attempt.calls = 1

C7_SuccessEffects ==
  <<"toast:Content Created Successfully!", "onOpenChange(false)", "reload">>

\* C7: a successful create produces the success toast, then onOpenChange(false),
\* then the reload, in this order; none of the three occurs unless the response
\* reported success.
C7_SuccessEffectsInOrder ==
  /\ (settled.op = "create" /\ settled.outcome = "success") => effects = C7_SuccessEffects
  /\ (\E k \in 1..Len(C7_SuccessEffects) : Has(effects, C7_SuccessEffects[k]))
       => (settled.op = "create" /\ settled.outcome = "success")

\* a create request succeeded and the page was reloaded
C7_Witness ==
  /\ settled.op = "create" /\ settled.outcome = "success"
  /\ ~createDialogOpen /\ contentLoading

\* the endpoint of each content type, as the claim lists them
C8_Endpoint(t) ==
  CASE t = "hotel" -> "/api/hotels"
    [] t = "tour" -> "/api/tours"
    [] t = "care-service" -> "/api/care-services"

\* the form a payload comes from, by a field only that form has
C8_FormOf(data) ==
  IF "location" \in DOMAIN data THEN "hotel"
  ELSE IF "duration" \in DOMAIN data THEN "tour"
  ELSE "care-service"

\* C8: a submit of a form POSTs to the endpoint of the form's content type with the
\* JSON of exactly the payload the form passed to onSubmit; no request of a form is
\* ever in flight to another type's endpoint.
C8_CreateRoutedByType ==
  /\ (attempt.calls = 1 /\ settled.op = Null) =>
        /\ createReqs # <<>>
        /\ createReqs[Len(createReqs)] =
             [method |-> "POST", endpoint |-> C8_Endpoint(attempt.type),
              body |-> JSONStringify(attempt.payload), live |-> TRUE]
        /\ C8_FormOf(attempt.payload) = attempt.type
  /\ \A i \in 1..Len(createReqs) :
        /\ createReqs[i].method = "POST"
        /\ createReqs[i].endpoint = C8_Endpoint(C8_FormOf(createReqs[i].body[2]))

\* a tour form was submitted after the dialog's tab was changed, and its request is
\* in flight
C8_Witness ==
  /\ attempt.calls = 1 /\ attempt.type = "tour" /\ settled.op = Null
  /\ createReqs # <<>> /\ createReqs[1].endpoint = "/api/tours"

\* the endpoints as the claim lists them
C4_Endpoint(t) ==
  CASE t = "hotel" -> "/api/hotels/"
    [] t = "tour" -> "/api/tours/"
    [] t = "care-service" -> "/api/care-services/"

\* C4 (as stated): after View is clicked on a card of type T with id I, the detail
\* request goes to the endpoint of T with id I, and on success selectedContent has
\* type T and id I, whatever ids the loaded list holds.
C4_ViewRequestsOwnRecord ==
  clicked.type # Null =>
    /\ \A k \in 1..Len(viewReqs) :
         viewReqs[k].endpoint = C4_Endpoint(clicked.type) /\ viewReqs[k].id = clicked.id
    /\ (settled.op = "view" /\ settled.outcome = "success") =>
         selectedContent.type = clicked.type /\ selectedContent.id = clicked.id

\* no loaded item of another type has the id of the clicked card
C4_IdUnique ==
  \A k \in 1..Len(contentData) :
    contentData[k].id = clicked.id => contentData[k].type = clicked.type

\* C4 (what the code does): the detail request carries the id of the clicked card and
\* goes to the endpoint of the first loaded item with that id: the card's own record
\* when no loaded item of another type shares its id.
C4_ViewRequestsFirstItemWithId ==
  clicked.type # Null =>
    \A k \in 1..Len(viewReqs) :
      /\ viewReqs[k].id = clicked.id
      /\ viewReqs[k].endpoint =
           C4_Endpoint(contentData[FindById(contentData, clicked.id)].type)
      /\ C4_IdUnique => viewReqs[k].endpoint = C4_Endpoint(clicked.type)

C4_Witness ==
  /\ clicked.type = "tour" /\ clicked.id = 1
  /\ Len(viewReqs) = 1
  /\ C4_IdUnique
  /\ \E k \in 1..Len(contentData) : contentData[k].type = "hotel"

C5_Thrown(responses) ==
  \E k \in 1..3 : responses[k].kind \in {"reject", "unparseable"}

C5_TypeAt(k) == <<"hotel", "tour", "care-service">>[k]

C5_IsMockItem(item) == \E m \in 1..Len(mockContent) : mockContent[m] = item

\* the ids a response lists
C5_Listed(response) == IF response.kind = "success" THEN response.ids ELSE {}

\* C5: once the initial list load has settled: if any of the three requests
\* rejected or had an unparseable body, contentData is exactly the three-item
\* mockContent; otherwise contentData holds exactly one item per listed backend
\* record, of its type, id and name, in the order hotels, tours, care services,
\* and no mock item.
C5_ListLoadFallsBackToMock ==
  settled.op = "list" =>
    LET r == settled.responses
    IN /\ C5_Thrown(r) => contentData = mockContent /\ Len(contentData) = 3
       /\ ~C5_Thrown(r) =>
            /\ Len(contentData) = Cardinality(C5_Listed(r[1]))
                 + Cardinality(C5_Listed(r[2])) + Cardinality(C5_Listed(r[3]))
            /\ \A k \in 1..3 : \A id \in C5_Listed(r[k]) :
                 \E i \in 1..Len(contentData) :
                   /\ contentData[i].type = C5_TypeAt(k)
                   /\ contentData[i].id = id
                   /\ contentData[i].title = BackendName(C5_TypeAt(k), id)
            /\ \A i, j \in 1..Len(contentData) :
                 i < j => \/ contentData[i].type = contentData[j].type
                          \/ contentData[i].type = "hotel"
                          \/ contentData[j].type = "care-service"
            /\ \A i \in 1..Len(contentData) : ~C5_IsMockItem(contentData[i])

C5_Witness ==
  /\ settled.op = "list"
  /\ settled.responses[1].kind = "success" /\ settled.responses[1].ids = {1, 2}
  /\ settled.responses[2].kind = "unparseable"
  /\ settled.responses[3].kind = "success"
  /\ contentData = mockContent

\* two characters that are the same letter, whatever their case
C10_SameLetter(a, b) ==
  a = b \/ \E i \in 1..Len(UpperChars) : {a, b} = {UpperChars[i], LowerChars[i]}

\* text contains query, case-insensitively
C10_Contains(text, query) ==
  \E off \in 0..(Len(text) - Len(query)) :
    \A k \in 1..Len(query) : C10_SameLetter(text[off + k], query[k])

C10_Matches(item) ==
  /\ \/ C10_Contains(item.title, searchQuery)
     \/ C10_Contains(item.description, searchQuery)
     \/ C10_Contains(item.location, searchQuery)
  /\ activeTab = "all" \/ item.type = activeTab

C10_Statement ==
  /\ DisplayedCards = SelectSeq(contentData, C10_Matches)
  /\ (activeTab = "all" /\ searchQuery = <<>>) => DisplayedCards = contentData
  /\ ResultsBadge = Len(DisplayedCards)
  /\ TabCount("all") = TabCount("hotel") + TabCount("tour") + TabCount("care-service")

\* C10 (as stated): whenever the dashboard is shown, the displayed cards are exactly
\* the loaded items that contain the search query case-insensitively in title,
\* description or location and whose type is the active tab (or the tab is 'all');
\* the results badge is the number of displayed cards and the 'All Content' count is
\* the sum of the three type counts.
C10_DisplayedCardsAreFiltered == DashboardShown => C10_Statement

\* C10 (amended): the same, whenever the dashboard is shown and no detail request is
\* pending (isLoading is false); while one is pending, skeletons replace the cards.
C10_DisplayedCardsAreFilteredWhenIdle == (DashboardShown /\ ~isLoading) => C10_Statement

\* a query that one displayed card contains only in the other case, with a card filtered out
C10_Witness ==
  /\ DashboardShown /\ ~isLoading
  /\ searchQuery = <<"A">>
  /\ activeTab = "all"
  /\ Len(DisplayedCards) < Len(contentData)
  /\ \E i \in 1..Len(DisplayedCards) :
       ~matchesSearch_CaseSensitive(DisplayedCards[i], searchQuery)

\* C3 (as stated): every REST call that failed (rejected, HTTP not ok, unparseable or
\* success = false) was shown to the user by mock data or by a toast.
C3_EveryFailureSurfaced ==
  (settled.op # Null /\ settled.outcome # "success") => settled.shown \in {"mock", "toast"}

C9_Kinds == {"list", "view", "variant", "regenerate", "create"}

\* the requests of a kind in flight; the three list requests are issued together
C9_InFlight(k) ==
  CASE k = "list" -> IF listPending THEN 1 ELSE 0
    [] k = "view" -> Len(viewReqs)
    [] k = "variant" -> Len(variantReqs)
    [] k = "regenerate" -> Len(regenReqs)
    [] k = "create" -> Len(createReqs)

C9_Total ==
  C9_InFlight("list") + C9_InFlight("view") + C9_InFlight("variant")
    + C9_InFlight("regenerate") + C9_InFlight("create")

\* C9: a step that is no triggering event issues no request; a triggering event
\* issues at most one; the step in which a request settles, whatever its outcome,
\* takes that request out of flight and issues it no more, and issues another
\* request only if it reloads the page or changes the content of the preview.
C9_NoRetry ==
  [][ /\ step' = "other" => \A k \in C9_Kinds : C9_InFlight(k)' <= C9_InFlight(k)
      /\ step' = "trigger" => C9_Total' <= C9_Total + 1
      /\ step' \in {"settle", "settle+trigger"} =>
           /\ \E k \in C9_Kinds :
                k = settled'.op /\ C9_InFlight(k)' < C9_InFlight(k)
           /\ step' = "settle" => \A k \in C9_Kinds : C9_InFlight(k)' <= C9_InFlight(k)
           /\ step' = "settle+trigger" =>
                /\ C9_Total' <= C9_Total
                /\ \A k \in C9_Kinds : C9_InFlight(k)' <= C9_InFlight(k) + 1
    ]_vars

\* a variant request has failed and nothing is in flight
C9_Witness ==
  /\ step = "settle"
  /\ settled.op = "variant" /\ settled.outcome = "reject"
  /\ C9_Total = 0

\* the fields that are no key/value lists, as the claim lists them
C11_PlainFields(t) ==
  CASE t = "hotel" -> {"name", "location", "coordinates", "description", "images",
                       "cancellation_conditions", "parking", "accessibility_notes"}
    [] t = "tour" -> {"name", "description", "destinations", "photos", "duration",
                      "support_services"}
    [] t = "care-service" -> {"name", "description", "care_types",
                              "staff_qualifications", "images"}

\* C11: in the payload a form passes to onSubmit, every field that is no key/value
\* list has exactly the value and element order the user entered, and the payload
\* has exactly the fields of the form data: none added, none dropped.
C11_OnlyKeyValueFieldsReshaped ==
  attempt.calls = 1 =>
    /\ DOMAIN attempt.payload = DOMAIN attempt.data
    /\ C11_PlainFields(attempt.type) \subseteq DOMAIN attempt.payload
    /\ \A f \in C11_PlainFields(attempt.type) : attempt.payload[f] = attempt.data[f]

\* a tour submitted with two destinations whose order matters
C11_Witness ==
  /\ attempt.calls = 1 /\ attempt.type = "tour"
  /\ attempt.data["destinations"] = <<"i", "">>
  /\ attempt.payload["destinations"] = <<"i", "">>

\* the optional fields as the claim lists them
C12_OptionalFields(t) ==
  CASE t = "hotel" -> {"description", "coordinates", "prices", "images", "amenities",
                       "accessibility_features", "accessibility_notes", "meal_times",
                       "parking", "cancellation_conditions", "nearby_accessible_places"}
    [] t = "tour" -> {"description", "duration", "photos", "destinations", "activities",
                      "itinerary", "support_services", "accessibility_features"}
    [] t = "care-service" -> {"description", "images", "care_types",
                              "staff_qualifications", "pricing_insurance",
                              "emergency_contact", "accessibility_features"}

C12_PresentNonEmpty(data, f) ==
  f \in DOMAIN data /\ data[f].kind # "null" /\ data[f].size > 0

C13_PreviewShowsActiveTab ==
  (Selected(selectedContent) /\ variantReqs = <<>>) =>
    IF pvActiveTab = "original"
    THEN currentContent = selectedContent
    ELSE \/ currentContent = selectedContent
         \/ currentContent.variant = pvActiveTab

\* C14 (as stated): while the 'original' tab is selected, the displayed content of a
\* record that handleViewContent loaded holds no fields returned by a regeneration.
C14_OriginalTabShowsUnadapted ==
  (/\ Selected(selectedContent) /\ selectedContent.src \in {"backend", "mock"}
   /\ pvActiveTab = "original" /\ Selected(currentContent)) =>
    currentContent.regen = "none"

\* C15 (as stated): selectedContent changes from null to a record only in a step
\* in which the detail request of a View click settles.
C15_BackStaysBack ==
  [][ (~Selected(selectedContent) /\ Selected(selectedContent')) =>
        (settled'.op = "view" /\ Len(viewReqs') < Len(viewReqs)) ]_vars

\* C16 (as stated): the Regenerate button on the tab of a disability type is
\* disabled while a regeneration the mounted preview started for that type is in
\* flight, and no two regenerations it started for the same type are in flight.
C16_NoDuplicateRegeneration ==
  \A i \in 1..Len(regenReqs) :
    regenReqs[i].live =>
      /\ pvActiveTab = regenReqs[i].disability_type => isRegenerating = pvActiveTab
      /\ \A j \in 1..Len(regenReqs) :
           (j # i /\ regenReqs[j].live) =>
             regenReqs[j].disability_type # regenReqs[i].disability_type

C17_Failed == {"reject", "notok", "failure"}

\* C17 (as stated): after the detail request of a click on a card whose id no loaded
\* item of another type shares has settled: if it failed and mockContent has an item
\* with the clicked id, selectedContent is that item's mock detail; and whenever
\* selectedContent was set, its id is the clicked id and its type the clicked card's.
C17_FallbackKeepsClickedRecord ==
  (settled.op = "view" /\ clicked.type # Null /\ C4_IdUnique) =>
    /\ (settled.outcome \in C17_Failed /\ FindById(mockContent, clicked.id) # 0) =>
         selectedContent.src = "mock"
    /\ Selected(selectedContent) =>
         selectedContent.id = clicked.id /\ selectedContent.type = clicked.type

\* C17 (what the code does): after a failed detail request selectedContent is the
\* mock detail of the mockContent item with the clicked id, of that item's type,
\* whatever the type of the clicked card; after a successful one it has the clicked
\* id and the type of the first loaded item with that id.
C17_FallbackByIdOnly ==
  (settled.op = "view" /\ clicked.type # Null) =>
    IF settled.outcome \in C17_Failed
    THEN LET m == FindById(mockContent, clicked.id)
         IN IF m # 0
            THEN /\ selectedContent.src = "mock"
                 /\ selectedContent.id = clicked.id
                 /\ selectedContent.type = mockContent[m].type
                 /\ \A f \in DOMAIN MockDetail(mockContent[m].type) :
                      selectedContent[f] = MockDetail(mockContent[m].type)[f]
            ELSE ~Selected(selectedContent)
    ELSE /\ selectedContent.src = "backend"
         /\ selectedContent.id = clicked.id
         /\ selectedContent.type = contentData[FindById(contentData, clicked.id)].type

\* the detail request of a click on the card of tour 1 failed: mock hotel 1 is shown
C17_Witness ==
  /\ settled.op = "view" /\ settled.outcome = "notok"
  /\ clicked.type = "tour" /\ clicked.id = 1 /\ C4_IdUnique
  /\ selectedContent.src = "mock" /\ selectedContent.type = "hotel"

\* next is prev with the fields returned for req laid over it
C18_Overlaid(prev, req, next) ==
  /\ next.regen = req.disability_type
  /\ IF Selected(prev)
     THEN /\ DOMAIN next = DOMAIN prev
          /\ \A f \in DOMAIN prev \ {"regen"} : next[f] = prev[f]
     ELSE next.id = NoId /\ next.type = Undefined

\* C18: a step in which a regenerate request settles leaves selectedContent as it
\* was when the request failed (rejected, not ok, success = false) and makes it the
\* previous selectedContent overlaid with the returned fields when it succeeded; a
\* step that issues a regenerate request issues a POST to regenerate-content with
\* the type and id of the record selected at the click and the tab active at the click.
C18_RegenerationUpdatesOnSuccess ==
  [][ /\ (settled'.op = "regenerate" /\ Len(regenReqs') < Len(regenReqs)) =>
           \E i \in 1..Len(regenReqs) :
             /\ regenReqs' = RemoveAt(regenReqs, i)
             /\ IF settled'.outcome = "success"
                THEN C18_Overlaid(selectedContent, regenReqs[i], selectedContent')
                ELSE selectedContent' = selectedContent
      /\ Len(regenReqs') > Len(regenReqs) =>
           LET req == regenReqs'[Len(regenReqs')]
           IN /\ req.method = "POST"
              /\ req.endpoint = "/api/regenerate-content/"
              /\ req.type = selectedContent.type /\ req.id = selectedContent.id
              /\ req.disability_type = pvActiveTab
              /\ selectedContent' = selectedContent
    ]_vars

\* the regeneration of hotel 1 for wheelchair users succeeded while it was selected
C18_Witness ==
  /\ settled.op = "regenerate" /\ settled.outcome = "success"
  /\ selectedContent.src = "backend" /\ selectedContent.type = "hotel"
  /\ selectedContent.regen = "wheelchair_user"

C19_Failed == {"reject", "notok", "failure"}

\* C19: a step that issues a variant request issues it for the content prop and the
\* active tab of that render; a step in which a variant request fails (rejected, not
\* ok, success = false) sets currentContent to the content prop the request was
\* issued for, which is no variant, and leaves the active tab as it is.
C19_VariantFallsBackToOriginal ==
  [][ /\ Len(variantReqs') > Len(variantReqs) =>
           LET req == variantReqs'[Len(variantReqs')]
           IN req.content = selectedContent' /\ req.disability_type = pvActiveTab'
      /\ (/\ settled'.op = "variant" /\ settled'.outcome \in C19_Failed
          /\ Len(variantReqs') < Len(variantReqs)) =>
           \E i \in 1..Len(variantReqs) :
             /\ variantReqs' = RemoveAt(variantReqs, i)
             /\ currentContent' = variantReqs[i].content
             /\ currentContent'.variant = "original"
             /\ pvActiveTab' = pvActiveTab
             /\ selectedContent' = selectedContent
    ]_vars

\* the request for the dyslexia variant of the selected record failed: the record
\* itself is displayed on the dyslexia tab
C19_Witness ==
  /\ settled.op = "variant" /\ settled.outcome = "notok"
  /\ pvActiveTab = "dyslexia" /\ Selected(selectedContent)
  /\ currentContent = selectedContent /\ ~isLoadingContent

\* the request a step settled: the one at index i of reqs, gone from after
C20_Settled(reqs, after, i) == i \in 1..Len(reqs) /\ after = RemoveAt(reqs, i)

\* C20: the step in which a request settles, with any outcome, leaves the loading
\* flag of the component that awaits it reset; and, every request eventually
\* settling, each of contentLoading, isLoading, the dialog's isLoading,
\* isLoadingContent and isRegenerating that is set is eventually reset.
C20_LoadingFlagsClear ==
  /\ [][ /\ (listPending /\ ~listPending') => ~contentLoading'
         /\ Len(viewReqs') < Len(viewReqs) => ~isLoading'
         /\ Len(variantReqs') < Len(variantReqs) => ~isLoadingContent'
         /\ \A i \in 1..Len(createReqs) :
              (C20_Settled(createReqs, createReqs', i) /\ createReqs[i].live) =>
                ~dlgIsLoading'
         /\ \A i \in 1..Len(regenReqs) :
              (C20_Settled(regenReqs, regenReqs', i) /\ regenReqs[i].live) =>
                isRegenerating' = Null
       ]_vars
  /\ contentLoading ~> ~contentLoading
  /\ isLoading ~> ~isLoading
  /\ dlgIsLoading ~> ~dlgIsLoading
  /\ isLoadingContent ~> ~isLoadingContent
  /\ (isRegenerating # Null) ~> (isRegenerating = Null)

\* a regeneration was rejected while its preview was open: isRegenerating is reset
C20_Witness ==
  /\ settled.op = "regenerate" /\ settled.outcome = "reject"
  /\ Selected(selectedContent) /\ pvActiveTab = "wheelchair_user"
  /\ isRegenerating = Null /\ regenReqs = <<>>

\* C21 (as stated): while the list requests of the initial load are pending, the
\* dashboard does not show the 'No content found' card.
C21_NoEmptyStateWhileLoading ==
  (DashboardShown /\ listPending /\ contentLoading) =>
    TabsContentShows # "No content found"

\* C22 (as stated): at most one create request is in flight at any time.
C22_OneCreateInFlight == Len(createReqs) <= 1

\* C22 (what the code does): at most one create request of the mounted dialog is in
\* flight, and the dialog's isLoading is true exactly while there is one; a request
\* of a dialog that unmounted with the dashboard branch can still be in flight.
C22_OneCreatePerDialog ==
  /\ Cardinality({i \in 1..Len(createReqs) : createReqs[i].live}) <= 1
  /\ dlgIsLoading <=> (\E i \in 1..Len(createReqs) : createReqs[i].live)

\* the dialog mounted again on Back while the create request of the unmounted one
\* was in flight, and the form was submitted a second time
C22_Witness ==
  /\ Len(createReqs) = 2 /\ ~createReqs[1].live /\ createReqs[2].live
  /\ dlgIsLoading /\ createDialogOpen /\ DashboardShown

C24_Keys(rows) == {rows[i].key : i \in 1..Len(rows)}

\* the index of the last row of rows with key k
C24_LastRow(rows, k) ==
  CHOOSE i \in 1..Len(rows) :
    rows[i].key = k /\ \A j \in (i + 1)..Len(rows) : rows[j].key # k

\* C24: in every key/value field sent as a mapping, the submitted mapping has one
\* entry per distinct key of the entered rows (the empty key included), as many
\* entries as there are distinct keys, and under each key the value of the last row
\* with that key.
C24_RepeatedKeysCollapseToLast ==
  attempt.calls = 1 =>
    \A f \in C2_MapFields(attempt.type) :
      LET rows == attempt.data[f]
          m == attempt.payload[f]
      IN /\ DOMAIN m = C24_Keys(rows)
         /\ Cardinality(DOMAIN m) = Cardinality(C24_Keys(rows))
         /\ \A k \in C24_Keys(rows) : m[k] = rows[C24_LastRow(rows, k)].value

\* a form was submitted with two rows of the empty key and different values: the
\* mapping has the one entry of the second row
C24_Witness ==
  /\ attempt.calls = 1
  /\ \E f \in C2_MapFields(attempt.type) :
       /\ Len(attempt.data[f]) = 2
       /\ attempt.data[f][1].key = "" /\ attempt.data[f][2].key = ""
       /\ attempt.data[f][1].value # attempt.data[f][2].value
       /\ Cardinality(DOMAIN attempt.payload[f]) = 1
       /\ attempt.payload[f][""] = attempt.data[f][2].value

\* the key/value fields sent as a list, as the claim lists them
C25_ListFields(t) ==
  CASE t = "hotel" -> {"nearby_accessible_places"}
    [] t = "tour" -> {"activities", "itinerary"}
    [] OTHER -> {}

\* the object the claim gives for a row of field f
C25_Sent(f, row) ==
  CASE f = "nearby_accessible_places" -> [k \in {row.key} |-> row.value]
    [] f = "activities" -> [name |-> row.key, description |-> row.value]
    [] f = "itinerary" -> [time |-> row.key, activity |-> row.value]

\* C25: in every key/value field sent as a list, the submitted list has one object
\* per entered row, in the order of the rows: {key: value} for
\* nearby_accessible_places, {name, description} for activities, {time, activity}
\* for itinerary; rows with equal keys are all there.
C25_ListFieldsKeepEveryRow ==
  attempt.calls = 1 =>
    \A f \in C25_ListFields(attempt.type) :
      LET rows == attempt.data[f]
          sent == attempt.payload[f]
      IN /\ Len(sent) = Len(rows)
         /\ \A i \in 1..Len(rows) : sent[i] = C25_Sent(f, rows[i])

\* a tour was submitted with two activities of the same key and different values
C25_Witness ==
  /\ attempt.calls = 1 /\ attempt.type = "tour"
  /\ Len(attempt.data["activities"]) = 2
  /\ attempt.data["activities"][1].key = attempt.data["activities"][2].key
  /\ attempt.data["activities"][1].value # attempt.data["activities"][2].value
  /\ Len(attempt.payload["activities"]) = 2

\* ContentPreview shows the text (which is not empty) for the i-th item of field f
\* of the submitted record
C26_Shown(f, i, text) == text # "" => text \in ItemTexts(f, attempt.payload[f][i])

\* C26 (as stated): when the submitted record comes back as it was sent, the preview
\* shows, for every row entered in nearby_accessible_places, activities or
\* itinerary, both the key text and the value text of the row.
C26_SubmittedRowsAreDisplayed ==
  attempt.calls = 1 =>
    \A f \in C25_ListFields(attempt.type) :
      \A i \in 1..Len(attempt.data[f]) :
        /\ C26_Shown(f, i, attempt.data[f][i].key)
        /\ C26_Shown(f, i, attempt.data[f][i].value)

\* C26 (what the code does): the preview shows key and value of every activity and
\* the key (time) of every itinerary row; it shows the value (activity) of no
\* itinerary row, and of a nearby place only what stands under a key that is
\* 'name', 'description' or 'distance'.
C26_ActivitiesAreDisplayed ==
  attempt.calls = 1 =>
    /\ \A f \in C25_ListFields(attempt.type) \cap {"activities"} :
         \A i \in 1..Len(attempt.data[f]) :
           /\ C26_Shown(f, i, attempt.data[f][i].key)
           /\ C26_Shown(f, i, attempt.data[f][i].value)
    /\ \A f \in C25_ListFields(attempt.type) \cap {"itinerary"} :
         \A i \in 1..Len(attempt.data[f]) :
           ItemTexts(f, attempt.payload[f][i]) = {attempt.data[f][i].key} \ {""}
    /\ \A f \in C25_ListFields(attempt.type) \cap {"nearby_accessible_places"} :
         \A i \in 1..Len(attempt.data[f]) :
           attempt.data[f][i].key \notin ShownProperties(f) =>
             ItemTexts(f, attempt.payload[f][i]) = {}

\* a hotel was submitted with the nearby place a: v, of which the preview shows nothing
C26_Witness ==
  /\ attempt.calls = 1 /\ attempt.type = "hotel"
  /\ Len(attempt.data["nearby_accessible_places"]) = 1
  /\ attempt.data["nearby_accessible_places"][1] = [key |-> "a", value |-> "v"]
  /\ ItemTexts("nearby_accessible_places", attempt.payload["nearby_accessible_places"][1]) = {}

\* C27 (as stated): a step in which the user chooses the header's create item of a
\* type leaves the create dialog open with the form of that type as its active tab.
C27_HeaderOpensMatchingForm ==
  [][ \A item \in ContentTypes :
        HeaderItemClick(item) => (createDialogOpen' /\ dlgActiveTab' = item) ]_vars

\* C27 (what the code does): the step leaves the dialog open on the tab it showed
\* before, whichever item was chosen, and createDialogTab as it was.
C27_HeaderOpensLastTab ==
  [][ \A item \in ContentTypes :
        HeaderItemClick(item) =>
          /\ createDialogOpen'
          /\ dlgActiveTab' = dlgActiveTab
          /\ createDialogTab' = createDialogTab ]_vars

\* the dialog is open on the tour form, which the user selected in it earlier
C27_Witness ==
  /\ createDialogOpen /\ dlgActiveTab = "tour" /\ createDialogTab = "hotel"
  /\ form = DefaultValues("tour")

\* the index, in hotels / tours / care services order, of the list of a type
C28_ListOf(type) == CHOOSE k \in 1..3 : C5_TypeAt(k) = type

\* all three requests resolved and parsed, and exactly one has success = false
C28_OneFailed(responses) ==
  /\ \A k \in 1..3 : responses[k].kind \in {"success", "failure"}
  /\ Cardinality({k \in 1..3 : responses[k].kind = "failure"}) = 1

\* C28: once a list load has settled in which all three requests resolved and
\* parsed and one response had success = false: contentData has one item per record
\* of the other two lists, in the order hotels, tours, care services and in list
\* order within a type, each with the type of its list and title = name; it has no
\* item of the failing type and no mock item.
C28_PartialListResults ==
  (settled.op = "list" /\ C28_OneFailed(settled.responses)) =>
    LET r == settled.responses
    IN /\ Len(contentData) = Cardinality(r[1].ids) + Cardinality(r[2].ids)
                               + Cardinality(r[3].ids)
       /\ \A i \in 1..Len(contentData) :
            LET item == contentData[i]
                k == C28_ListOf(item.type)
            IN /\ r[k].kind = "success" /\ item.id \in r[k].ids
               /\ item.title = BackendName(item.type, item.id)
               /\ ~C5_IsMockItem(item)
       /\ \A i, j \in 1..Len(contentData) :
            i < j =>
              \/ C28_ListOf(contentData[i].type) < C28_ListOf(contentData[j].type)
              \/ /\ contentData[i].type = contentData[j].type
                 /\ contentData[i].id < contentData[j].id

\* the tours response had success = false, hotels and care services were listed
C28_Witness ==
  /\ settled.op = "list"
  /\ settled.responses[1].kind = "success" /\ settled.responses[1].ids = {1, 2}
  /\ settled.responses[2].kind = "failure"
  /\ settled.responses[3].kind = "success" /\ settled.responses[3].ids = {2}
  /\ Len(contentData) = 3 /\ contentData[3].type = "care-service"

\* C29: the active tab of the preview is always a key of accessibilityConfig (one of
\* the six disability types), it is 'original' whenever the preview mounts, and no
\* regenerate request is ever issued for 'original'.
C29_TabsAreClosed ==
  /\ [](/\ pvActiveTab \in accessibilityConfig
        /\ \A i \in 1..Len(regenReqs) :
             regenReqs[i].disability_type \in accessibilityConfig \ {"original"})
  /\ [][ (~Selected(selectedContent) /\ Selected(selectedContent')) =>
           pvActiveTab' = "original" ]_vars

\* the last tab is selected and its regeneration is in flight
C29_Witness ==
  /\ Selected(selectedContent) /\ pvActiveTab = "low_vision"
  /\ regenReqs # <<>> /\ regenReqs[1].disability_type = "low_vision"
  /\ isRegenerating = "low_vision"

====
